---- MODULE Spec2Model ----
(***************************************************************************)
(* Model of the Voxel51 documentation repository: the documentation build  *)
(* command surface described in the README, and the execution of the code  *)
(* cells of the tutorial notebooks.                                        *)
(***************************************************************************)
EXTENDS Integers, Sequences, FiniteSets, TLC

(***************************************************************************)
(* PART A.  The documentation build (README).                              *)
(***************************************************************************)

\* Total number of file edits explored.
MaxEdits == 2

\* The general docs: the pages edited in this repository.
GeneralPages == {"clustering", "dimension_reduction", "augmentations"}

\* The API reference pages (the docs/api and docs/ts_api folders).
ApiPages == {"api", "ts_api"}

AllPages == GeneralPages \cup ApiPages

\* Version of a page that has never been built.
NotBuilt == -1

VARIABLES
    venv,        \* "none" | "created" | "active": the virtual environment of step 1
    cwd_root,    \* whether the shell is in the root directory of the repo (step 2)
    deps,        \* environments requirements.txt was installed into (step 3)
    serve,       \* "off" | "dirty" | "clean": the running mkdocs serve, if any
    serve_args,  \* the flags the running mkdocs serve was started with
    src_ver,     \* per page, the version of its source file
    site,        \* per page, the source version its built page was built from
    rebuilt,     \* the pages built by the last command or edit
    last_cmd,    \* the last command (or "edit") that ran
    last_ok,     \* whether it succeeded
    edits,       \* number of edits made so far
    symlinks,    \* the API folders whose symlink is present in docs/
    api_errors   \* the API folders the last mkdocs serve reported errors about

buildVars == <<venv, cwd_root, deps, serve, serve_args, src_ver, site, rebuilt,
               last_cmd, last_ok, edits, symlinks, api_errors>>

\* The environment a command runs in: the venv when activated, else the system one.
CurrentEnv == IF venv = "active" THEN "venv" ELSE "system"

InitBuild ==
    /\ venv = "none"
    /\ cwd_root = FALSE
    /\ deps = {}
    /\ serve = "off"
    /\ serve_args = {}
    /\ src_ver = [p \in AllPages |-> 0]
    /\ site = [p \in AllPages |-> NotBuilt]
    /\ rebuilt = {}
    /\ last_cmd = "none"
    /\ last_ok = TRUE
    /\ edits = 0
    /\ symlinks = ApiPages
    /\ api_errors = {}

\* Step 1a: python3 -m venv .venv
MakeVenv ==
    /\ venv = "none"
    /\ venv' = "created"
    /\ last_cmd' = "venv"
    /\ last_ok' = TRUE
    /\ rebuilt' = {}
    /\ UNCHANGED <<cwd_root, deps, serve, serve_args, src_ver, site, edits, symlinks, api_errors>>

\* Step 1b: source .venv/bin/activate
ActivateVenv ==
    /\ venv = "created"
    /\ venv' = "active"
    /\ last_cmd' = "activate"
    /\ last_ok' = TRUE
    /\ rebuilt' = {}
    /\ UNCHANGED <<cwd_root, deps, serve, serve_args, src_ver, site, edits, symlinks, api_errors>>

\* Step 2: be in the root directory of the repo
CdRoot ==
    /\ ~cwd_root
    /\ cwd_root' = TRUE
    /\ last_cmd' = "cd"
    /\ last_ok' = TRUE
    /\ rebuilt' = {}
    /\ UNCHANGED <<venv, deps, serve, serve_args, src_ver, site, edits, symlinks, api_errors>>

\* Step 3: pip install -r requirements.txt.  requirements.txt is a relative
\* path, found only from the repo root; the packages go to the current
\* environment.
PipInstall ==
    /\ serve = "off"
    /\ CurrentEnv \notin deps
    /\ last_cmd' = "pip"
    /\ rebuilt' = {}
    /\ IF cwd_root
         THEN /\ deps' = deps \cup {CurrentEnv}
              /\ last_ok' = TRUE
         ELSE /\ deps' = deps
              /\ last_ok' = FALSE
    /\ UNCHANGED <<venv, cwd_root, serve, serve_args, src_ver, site, edits, symlinks, api_errors>>

\* The build mode the flags of mkdocs serve select: clean unless --dirty.
ServeMode(args) == IF "--dirty" \in args THEN "dirty" ELSE "clean"

\* The pages whose built page is missing or older than its source.
Stale(pages) == {p \in pages : site[p] # src_ver[p]}

\* The pages a build in the given mode builds when file f changed (f = "" at
\* start-up): a dirty build only what changed, a clean build everything.
ToBuild_AllAlways(mode, f) == GeneralPages

ToBuild(mode, f) ==
    IF mode = "dirty"
      THEN (IF f = "" THEN Stale(GeneralPages) ELSE {f})
      ELSE GeneralPages

\* The API folders mkdocs serve reports errors about: those whose symlink is
\* present in docs/ while the API pages it points to have not been generated.
BrokenLinks_TargetsOnly == {p \in ApiPages : site[p] = NotBuilt}

BrokenLinks == {p \in symlinks : site[p] = NotBuilt}

\* Step 4: mkdocs serve [--dirty], run from the repo root with mkdocs installed
\* in the current environment.  It builds the general docs and keeps serving;
\* with a broken API symlink it stops with errors about that folder.
MkdocsServe(args) ==
    /\ serve = "off"
    /\ last_cmd' = "serve"
    /\ IF ~(cwd_root /\ CurrentEnv \in deps)
         THEN /\ api_errors' = {}
              /\ rebuilt' = {}
              /\ last_ok' = FALSE
              /\ UNCHANGED <<serve, serve_args, site>>
         ELSE IF BrokenLinks # {}
           THEN /\ api_errors' = BrokenLinks
                /\ rebuilt' = {}
                /\ last_ok' = FALSE
                /\ UNCHANGED <<serve, serve_args, site>>
           ELSE /\ api_errors' = {}
                /\ serve' = ServeMode(args)
                /\ serve_args' = args
                /\ rebuilt' = ToBuild(ServeMode(args), "")
                /\ site' = [p \in AllPages |->
                              IF p \in ToBuild(ServeMode(args), "")
                                THEN src_ver[p] ELSE site[p]]
                /\ last_ok' = TRUE
    /\ UNCHANGED <<venv, cwd_root, deps, src_ver, edits, symlinks>>

\* rm docs/api docs/ts_api: what the README says to do on finding such errors.
DeleteSymlinks ==
    /\ last_cmd = "serve"
    /\ api_errors # {}
    /\ symlinks' = {}
    /\ last_cmd' = "rm"
    /\ last_ok' = TRUE
    /\ rebuilt' = {}
    /\ UNCHANGED <<venv, cwd_root, deps, serve, serve_args, src_ver, site, edits,
                   api_errors>>

\* Stopping the server (Ctrl-C).
StopServe ==
    /\ serve # "off"
    /\ serve' = "off"
    /\ serve_args' = {}
    /\ last_cmd' = "stop"
    /\ last_ok' = TRUE
    /\ rebuilt' = {}
    /\ UNCHANGED <<venv, cwd_root, deps, src_ver, site, edits, symlinks, api_errors>>

\* Editing one file of the general docs; a running mkdocs serve rebuilds.
EditFile(f) ==
    /\ edits < MaxEdits
    /\ edits' = edits + 1
    /\ src_ver' = [src_ver EXCEPT ![f] = @ + 1]
    /\ last_cmd' = "edit"
    /\ last_ok' = TRUE
    /\ IF serve = "off"
         THEN /\ rebuilt' = {}
              /\ site' = site
         ELSE /\ rebuilt' = ToBuild(serve, f)
              /\ site' = [p \in AllPages |->
                            IF p \in ToBuild(serve, f) THEN src_ver'[p] ELSE site[p]]
    /\ UNCHANGED <<venv, cwd_root, deps, serve, serve_args, symlinks, api_errors>>

\* What build.sh builds: the entire doc site, the API docs along with the
\* general docs.
BuildShPages_GeneralOnly == GeneralPages

BuildShPages == AllPages

\* ./build.sh --venv <venv of step 1>, run from the repo root; it builds with
\* the packages installed in that venv.
BuildSh ==
    /\ serve = "off"
    /\ venv # "none"
    /\ last_cmd' = "build.sh"
    /\ IF cwd_root /\ "venv" \in deps
         THEN /\ rebuilt' = BuildShPages
              /\ site' = [p \in AllPages |->
                            IF p \in BuildShPages THEN src_ver[p] ELSE site[p]]
              /\ last_ok' = TRUE
         ELSE /\ rebuilt' = {}
              /\ site' = site
              /\ last_ok' = FALSE
    /\ UNCHANGED <<venv, cwd_root, deps, serve, serve_args, src_ver, edits, symlinks, api_errors>>

NextBuild ==
    \/ MakeVenv
    \/ ActivateVenv
    \/ CdRoot
    \/ PipInstall
    \/ \E args \in {{}, {"--dirty"}} : MkdocsServe(args)
    \/ DeleteSymlinks
    \/ StopServe
    \/ \E f \in GeneralPages : EditFile(f)
    \/ BuildSh

(***************************************************************************)
(* PART B.  The notebook kernels.                                          *)
(*                                                                         *)
(* Each notebook runs in a Python kernel of its own: a namespace, the      *)
(* FiftyOne datasets it has loaded (their fields and brain runs), the      *)
(* packages installed and the kernel's working directory.  A code cell is  *)
(* one step: its statements run in order and an exception ends the cell.   *)
(***************************************************************************)

Names == {"fo", "fob", "foz", "np", "Isomap", "cvae", "F", "dataset", "session",
          "clip", "resnet101", "pca_resnet_results", "embeddings",
          "manifold_embedding", "z", "X", "embedder", "IsomapVisualizationConfig",
          "IsomapVisualization", "model", "results2", "res",
          "AutoModelForDepthEstimation", "depth_model", "YOLO", "pose_model"}

Datasets == {"cifar10-test", "quickstart", "coco-2017-validation", "kitti-train"}

FieldNames == {"ground_truth", "resnet101_embeddings", "clip_embeddings",
               "resnet101", "clip_umap", "depth", "keypoints"}

BrainKeys == {"pca_resnet101", "resnet101_pca", "resnet101_tsne", "resnet101_umap",
              "resnet101_isomap", "clip_cvae", "isomap", "gt_umap", "clip_vis"}

\* The strings the notebook gives for the method argument.
MethodStrings == {"pca", "tsne", "umap", "manual"}

\* The methods that compute a reduction.
ReducingMethods == {"pca", "tsne", "umap"}

\* A Python value: what kind of object, its name, what it was computed from,
\* and a number (the dimension of points, the run of results).
Value(kind, name, of, n) == [kind |-> kind, name |-> name, of |-> of, n |-> n]

Unbound == Value("unbound", "", "", 0)

\* A brain run as stored under a brain key.
Run(id, method, computed, emb, points) ==
    [run |-> id, method |-> method, computed |-> computed, emb |-> emb,
     points |-> points]

NoRun == Run(0, "", FALSE, "", Unbound)

\* The model the brain uses when it has to embed and none was given.
DefaultModel == "default-model"

\* Number of samples of a loaded dataset.
NumSamples == 3

\* The samples of a dataset, in the dataset's order.
SampleIds == [i \in 1..NumSamples |-> i]

InitKernel ==
    [pc |-> 1,
     ns |-> [x \in Names |-> Unbound],
     loaded |-> {},
     fields |-> [d \in Datasets |-> [f \in FieldNames |-> Unbound]],
     brain |-> [d \in Datasets |-> [b \in BrainKeys |-> NoRun]],
     calls |-> <<>>,
     err |-> FALSE,
     failed |-> {},
     installed |-> {},
     cwd |-> "notebook",
     dirs |-> {},
     env |-> {},
     plugins |-> {},
     dsname |-> [d \in Datasets |-> d],
     persistent |-> {},
     samples |-> [d \in Datasets |-> <<>>],
     written |-> {},
     uses |-> {},
     reads |-> {},
     pip_cwd |-> "",
     source_of |-> [d \in Datasets |-> [f \in FieldNames |-> [s \in 1..NumSamples |-> 0]]]]

Raise(k) == [k EXCEPT !.err = TRUE]

\* Sequencing: the next statement runs unless the cell has raised.  The kernel
\* state the earlier statements left is worked out once, as s.
Then(k, Stmt(_)) == CHOOSE r \in {IF s.err THEN s ELSE Stmt(s) : s \in {k}} : TRUE

\* The statement at hand uses these names: a NameError unless every one is
\* bound.  What is noted is the cell, the name and whether it was bound.
Need(k, names) ==
    CHOOSE r \in
        {IF \E x \in names : k.ns[x] = Unbound THEN Raise(k1) ELSE k1 :
            k1 \in {[k EXCEPT !.uses = @ \cup {[cell |-> k.pc, name |-> x,
                                                bound |-> k.ns[x] # Unbound] :
                                               x \in names}]}} : TRUE

Bind(k, x, v) == [k EXCEPT !.ns[x] = v]

\* import <pkg> as <x>, from <pkg> import <x>
Import(k, x, pkg) ==
    IF pkg \in k.installed THEN Bind(k, x, Value("module", pkg, "", 0)) ELSE Raise(k)

\* !pip install <packages>: numpy comes with fiftyone and scikit-learn.
PipInstallPkgs(k, pkgs) ==
    [k EXCEPT !.installed =
        @ \cup pkgs \cup (IF pkgs \cap {"fiftyone", "scikit-learn"} # {}
                            THEN {"numpy"} ELSE {})]

\* !git clone .../<dir>.git
GitClone(k, dir) == [k EXCEPT !.dirs = @ \cup {dir}]

\* !cd <dir>: every ! line runs in a shell of its own, so the kernel's working
\* directory stays what it was.
ShellCd(k, dir) == k

\* !pip install . : installs the package in the kernel's working directory.
PipInstallDot(k) ==
    IF k.cwd = "CompressionVAE" /\ "CompressionVAE" \in k.dirs
      THEN [k EXCEPT !.installed = @ \cup {"cvae"}, !.pip_cwd = k.cwd]
      ELSE [k EXCEPT !.pip_cwd = k.cwd]

\* The name a zoo dataset gets: <zoo name>-<split>, or <zoo name> without split.
ZooDatasetName(zoo, split) ==
    CASE zoo = "cifar10" /\ split = "test" -> "cifar10-test"
      [] zoo = "coco-2017" /\ split = "validation" -> "coco-2017-validation"
      [] zoo = "kitti" /\ split = "train" -> "kitti-train"
      [] OTHER -> "quickstart"

\* <x> = foz.load_zoo_dataset(zoo, split=split): a dataset already loaded is
\* returned as it is, a new one comes with its ground_truth labels.
LoadZooDataset(k, x, zoo, split) ==
    LET d == ZooDatasetName(zoo, split)
        k1 == Need(k, {"foz"})
        k2 == IF d \in k1.loaded THEN k1
              ELSE [k1 EXCEPT !.loaded = @ \cup {d},
                              !.samples[d] = SampleIds,
                              !.fields[d]["ground_truth"] =
                                  Value("labels", "ground_truth", d, 0)]
    IN  IF k1.err THEN k1 ELSE Bind(k2, x, Value("dataset", d, "", 0))

\* <x> = foz.load_zoo_model(name)
LoadZooModel(k, x, name) ==
    Then(Need(k, {"foz"}), LAMBDA s : Bind(s, x, Value("model", name, "", 0)))

\* session = fo.launch_app(dataset): the session shows the dataset as it is
\* at the launch, under the name it then has, persistent (1) or not (0).
LaunchApp(k) ==
    Then(Need(k, {"fo", "dataset"}),
         LAMBDA s : Bind(s, "session",
                         Value("session", s.ns["dataset"].name,
                               s.dsname[s.ns["dataset"].name],
                               IF s.ns["dataset"].name \in s.persistent THEN 1 ELSE 0)))

\* dataset.compute_embeddings(<m>, embeddings_field=field), or with field = ""
\* <x> = dataset.compute_embeddings(<m>)
ComputeEmbeddings(k, m, field, x) ==
    LET k1 == Need(k, {"dataset", m})
        d == k1.ns["dataset"].name
        e == Value("embeddings", "", k1.ns[m].name, 0)
    IN  IF k1.err THEN k1
        ELSE IF field # ""
          THEN [k1 EXCEPT !.fields[d][field] = e, !.written = @ \cup {<<d, field>>}]
        ELSE Bind(k1, x, e)

\* A code cell reads an embeddings field of the dataset: what is noted is the
\* cell, the field and whether compute_embeddings() has written it before.
ReadsField(k, d, field) ==
    [k EXCEPT !.reads = @ \cup {[cell |-> k.pc, ds |-> d, field |-> field,
                                 written |-> <<d, field>> \in k.written]}]

\* x = np.array(dataset.values(field))
DatasetValues(k, field, x) ==
    LET k1 == Need(k, {"np", "dataset"})
        d == k1.ns["dataset"].name
        k2 == ReadsField(k1, d, field)
    IN  IF k1.err THEN k1
        ELSE IF k2.fields[d][field] = Unbound THEN Raise(k2)
        ELSE Bind(k2, x, k2.fields[d][field])

\* z = <reducer>.fit_transform(<x>) and z = embedder.embed(<x>): low-dimensional
\* points computed outside the brain.
ReduceOutside(k, reducer, needs, x, dims) ==
    Then(Need(k, needs \cup {x}),
         LAMBDA s : Bind(s, "z", Value("points", reducer, s.ns[x].of, dims)))

VARIABLES
    lib,   \* how the installed FiftyOne Brain behaves where the notebooks do not say
    dr,    \* the kernel running dimension_reduction.ipynb
    cl,    \* the kernel running clustering.ipynb
    iso,   \* a use of the custom Isomap visualization classes on their own
    au     \* the kernel running the augmentation notebook

nbVars == <<lib, dr, cl, iso, au>>

\* The two visualizations the notebooks leave open: embeddings= names a field
\* that does not exist and no model is given; the brain key is already in use.
LibBehaviours ==
    [missing_field : {"raise", "default_model"}, key_exists : {"raise", "overwrite"}]

\* The arguments of a compute_visualization() call ("" or 0 for one not
\* given); method is a string literal, method_var a name holding a config class.
CVArgs(emb_field, emb_var, model, method, method_var, points_var, patches_field, brain_key, num_dims) ==
    [emb_field |-> emb_field, emb_var |-> emb_var, model |-> model,
     method |-> method, method_var |-> method_var, points_var |-> points_var,
     patches_field |-> patches_field, brain_key |-> brain_key, num_dims |-> num_dims]

\* The dimension of the points a computed reduction yields: num_dims, 2 when
\* it is not given (0).
DefaultNumDims == 2

NumDims(a) == IF a.num_dims = 0 THEN DefaultNumDims ELSE a.num_dims

\* An argument that is not given.
NotGiven == 0

\* Largest n_neighbors and num_dims given, and most embeddings fitted.
MaxNeighbors == 3

MaxDims == 3

MaxRows == 3

\* fob.VisualizationConfig(**kwargs): the base config keeps num_dims.
VisualizationConfig(kwargs) ==
    [num_dims |-> IF kwargs.num_dims = NotGiven THEN DefaultNumDims ELSE kwargs.num_dims]

\* n_neighbors of an IsomapVisualizationConfig when none is given.
DefaultNNeighbors == 5

\* class IsomapVisualizationConfig(fob.VisualizationConfig):
\*     def __init__(self, n_neighbors=5, **kwargs):
\*         super().__init__(**kwargs)
\*         self.n_neighbors = n_neighbors
IsomapVisualizationConfig(n_neighbors, kwargs) ==
    [base |-> VisualizationConfig(kwargs),
     n_neighbors |-> IF n_neighbors = NotGiven THEN DefaultNNeighbors ELSE n_neighbors]

\* Isomap(n_components=..., n_neighbors=...)
Isomap(n_components, n_neighbors) ==
    [n_components |-> n_components, n_neighbors |-> n_neighbors]

NoIsomap == Isomap(0, 0)

\* <manifold>.fit_transform(embeddings): one point per row of the embeddings,
\* of n_components dimensions, in the order of the rows.
FitTransform(manifold, embeddings) ==
    [i \in 1..Len(embeddings) |->
        [of |-> embeddings[i], dims |-> manifold.n_components,
         n_neighbors |-> manifold.n_neighbors]]

\* The Isomap that IsomapVisualization.fit() builds from its config.
IsomapVisualizationManifold_NumDims(config) ==
    Isomap(config.base.num_dims, config.n_neighbors)

IsomapVisualizationManifold(config) == Isomap(2, config.n_neighbors)

\* class IsomapVisualization(fob.Visualization):
\*     def fit(self, embeddings):
\*         manifold_embedding = Isomap(n_components=2, n_neighbors=self.config.n_neighbors)
\*         return manifold_embedding.fit_transform(embeddings)
IsomapVisualizationFit(config, embeddings) ==
    FitTransform(IsomapVisualizationManifold(config), embeddings)

\* The names a call reads.
CVNames(a) ==
    {"fob", "dataset"} \cup ({a.emb_var, a.method_var, a.points_var} \ {""})

\* The package a built-in method runs on: scikit-learn for PCA and t-SNE,
\* umap-learn for UMAP.
MethodPackage(m) == IF m = "umap" THEN "umap-learn" ELSE "scikit-learn"

\* What is reduced: the embeddings passed in, those of the named field
\* (computed with the model and stored there when the field has none), or
\* embeddings of the model, or of the default one.
CVInput(k, d, a) ==
    LET f == IF a.emb_field # "" THEN k.fields[d][a.emb_field] ELSE Unbound
    IN  CASE a.method = "manual" ->
               [ok |-> a.points_var # "" /\ k.ns[a.points_var].kind = "points",
                emb |-> "", store |-> FALSE]
          [] a.method # "manual" /\ a.emb_var # "" ->
               [ok |-> k.ns[a.emb_var].kind = "embeddings",
                emb |-> k.ns[a.emb_var].of, store |-> FALSE]
          [] a.method # "manual" /\ a.emb_var = "" /\ a.emb_field # "" ->
               IF f.kind = "embeddings"
                 THEN [ok |-> TRUE, emb |-> f.of, store |-> FALSE]
               ELSE IF a.model # ""
                 THEN [ok |-> TRUE, emb |-> a.model, store |-> TRUE]
               ELSE [ok |-> lib.missing_field = "default_model",
                     emb |-> DefaultModel, store |-> TRUE]
          [] OTHER ->
               [ok |-> a.patches_field = ""
                         \/ k.fields[d][a.patches_field].kind = "labels",
                emb |-> IF a.model # "" THEN a.model ELSE DefaultModel,
                store |-> FALSE]

\* Whether the method can run, and the points it yields from embeddings emb:
\* manual takes the points given, the built-in methods and a custom config
\* class compute them.
CVPoints(k, a, emb) ==
    CASE a.method_var # "" ->
           LET config == IsomapVisualizationConfig(NotGiven, [num_dims |-> a.num_dims])
               pts == IsomapVisualizationFit(config, SampleIds)
           IN  [ok |-> k.ns[a.method_var].kind = "class" /\ "scikit-learn" \in k.installed,
                computed |-> TRUE, fit |-> IsomapVisualizationManifold(config),
                points |-> Value("points", "isomap", emb, pts[1].dims)]
      [] a.method_var = "" /\ a.method = "manual" ->
           [ok |-> TRUE, computed |-> FALSE, fit |-> NoIsomap,
            points |-> IF a.points_var # "" THEN k.ns[a.points_var] ELSE Unbound]
      [] a.method_var = "" /\ a.method \in ReducingMethods ->
           [ok |-> MethodPackage(a.method) \in k.installed,
            computed |-> TRUE, fit |-> NoIsomap,
            points |-> Value("points", a.method, emb, NumDims(a))]
      [] OTHER -> [ok |-> FALSE, computed |-> FALSE, fit |-> NoIsomap, points |-> Unbound]

\* [x =] fob.compute_visualization(dataset, ...): reduce, store the run under
\* the brain key and return its results.
ComputeVisualization(k, a, x) ==
    LET k1 == Need(k, CVNames(a))
        d == k1.ns["dataset"].name
        id == Len(k1.calls) + 1
        in == CVInput(k1, d, a)
        pt == CVPoints(k1, a, in.emb)
        taken == a.brain_key # "" /\ k1.brain[d][a.brain_key] # NoRun
        ok == in.ok /\ pt.ok /\ (taken => lib.key_exists = "overwrite")
        call == [ds |-> d, key |-> a.brain_key, method |-> a.method,
                 method_var |-> a.method_var, computed |-> ok /\ pt.computed,
                 ok |-> ok, emb |-> in.emb, over |-> k1.samples[d],
                 fit |-> IF ok THEN pt.fit ELSE NoIsomap,
                 points_in |-> IF a.points_var # "" THEN k1.ns[a.points_var] ELSE Unbound,
                 points_out |-> IF ok THEN pt.points ELSE Unbound]
        k2 == [(IF a.emb_field # "" THEN ReadsField(k1, d, a.emb_field) ELSE k1)
                  EXCEPT !.calls = Append(@, call)]
        k3 == IF in.store
                THEN [k2 EXCEPT !.fields[d][a.emb_field] = Value("embeddings", "", in.emb, 0)]
                ELSE k2
        k4 == IF a.brain_key # ""
                THEN [k3 EXCEPT !.brain[d][a.brain_key] =
                         Run(id, IF a.method_var # "" THEN a.method_var ELSE a.method,
                             pt.computed, in.emb, pt.points)]
                ELSE k3
    IN  IF k1.err THEN k1
        ELSE IF ~ok THEN Raise(k2)
        ELSE IF x # "" THEN Bind(k4, x, Value("results", a.brain_key, d, id))
        ELSE k4

\* x = dataset.load_brain_results(key)
LoadBrainResults(k, key, x) ==
    LET k1 == Need(k, {"dataset"})
        d == k1.ns["dataset"].name
    IN  IF k1.err THEN k1
        ELSE IF k1.brain[d][key] = NoRun THEN Raise(k1)
        ELSE Bind(k1, x, Value("results", key, d, k1.brain[d][key].run))

\* <r>.current_points: one point per sample the run was computed over; the
\* i-th entry of what is returned here is the sample the i-th point is of.
CurrentPoints_Reversed(call) ==
    [i \in 1..Len(call.over) |-> call.over[Len(call.over) + 1 - i]]

CurrentPoints(call) == call.over

\* dataset.set_values(field, <r>.current_points): the i-th value goes to the
\* i-th sample of the dataset; a ValueError unless there is one per sample.
SetValuesCurrentPoints(k, field, r) ==
    LET k1 == Need(k, {"dataset", r})
        d == k1.ns["dataset"].name
        call == k1.calls[k1.ns[r].n]
        of == CurrentPoints(call)
        ids == k1.samples[d]
    IN  IF k1.err THEN k1
        ELSE IF Len(of) # Len(ids) THEN Raise(k1)
        ELSE [k1 EXCEPT !.fields[d][field] = call.points_out,
                        !.source_of[d][field] =
                            [s \in 1..NumSamples |->
                                IF \E i \in 1..Len(ids) : ids[i] = s
                                  THEN of[CHOOSE i \in 1..Len(ids) : ids[i] = s]
                                  ELSE 0]]

\* The kernel ready for its next cell: the last cell's exception is gone.
Fresh(k) == [k EXCEPT !.err = FALSE]

\* A code cell: its body runs from a clean slate, the kernel moves on to the
\* next cell, and a cell that raised is remembered.
RunCell(k, i, Body(_)) ==
    CHOOSE r \in
        {[k1 EXCEPT !.pc = i + 1,
                    !.failed = IF k1.err THEN @ \cup {i} ELSE @] :
            k1 \in {Body(Fresh(k))}} : TRUE

(***************************************************************************)
(* The code cells of docs/tutorials/dimension_reduction.ipynb.             *)
(***************************************************************************)

\* import fiftyone as fo / import fiftyone.brain as fob / import fiftyone.zoo as foz
ImportFiftyOne_OnlyFo(k, xs) == Import(k, "fo", "fiftyone")

ImportFiftyOne(k, xs) ==
    LET k1 == IF "fo" \in xs THEN Import(k, "fo", "fiftyone") ELSE k
        k2 == IF "fob" \in xs THEN Then(k1, LAMBDA s : Import(s, "fob", "fiftyone")) ELSE k1
    IN  IF "foz" \in xs THEN Then(k2, LAMBDA s : Import(s, "foz", "fiftyone")) ELSE k2

\* Two calls of one technique: on the ResNet-101 and on the CLIP embeddings,
\* under the brain keys the cell gives, then the App is launched.
TwoVisualizations(k, method, key1, key2) ==
    LET k1 == ComputeVisualization(k,
                  CVArgs("resnet101_embeddings", "", "", method, "", "", "", key1, 0), "")
        k2 == Then(k1, LAMBDA s : ComputeVisualization(s,
                  CVArgs("clip_embeddings", "", "", method, "", "", "", key2, 0), ""))
    IN  Then(k2, LaunchApp)

DRBody1(k) == PipInstallPkgs(k, {"fiftyone", "scikit-learn", "umap-learn"})

DRBody2(k) ==
    LET k1 == ImportFiftyOne(k, {"fo", "fob", "foz"})
        k2 == Then(k1, LAMBDA s : LoadZooDataset(s, "dataset", "cifar10", "test"))
    IN  Then(k2, LaunchApp)

DRBody3(k) ==
    Then(LoadZooModel(k, "clip", "clip-vit-base32-torch"),
         LAMBDA s : LoadZooModel(s, "resnet101", "resnet101-imagenet-torch"))

DRBody4(k) ==
    Then(ComputeEmbeddings(k, "resnet101", "resnet101_embeddings", ""),
         LAMBDA s : ComputeEmbeddings(s, "clip", "clip_embeddings", ""))

\* The key the API recap cell loads the results back with.
RecapLoadKey_Swapped == "resnet101_pca"

RecapLoadKey == "pca_resnet101"

DRBody5(k) ==
    LET k1 == ImportFiftyOne(k, {"fo", "fob", "foz"})
        k2 == Then(k1, LAMBDA s : LoadZooDataset(s, "dataset", "cifar10", "test"))
        k3 == Then(k2, LAMBDA s : ComputeVisualization(s,
                  CVArgs("resnet101", "", "", "pca", "", "", "", "pca_resnet101", 0), ""))
    IN  Then(k3, LAMBDA s : LoadBrainResults(s, RecapLoadKey, "pca_resnet_results"))

DRBody6(k) == TwoVisualizations(k, "pca", "resnet101_pca", "resnet101_pca")

DRBody7(k) == TwoVisualizations(k, "tsne", "resnet101_tsne", "resnet101_tsne")

DRBody8(k) == TwoVisualizations(k, "umap", "resnet101_umap", "resnet101_umap")

DRBody9(k) ==
    LET k1 == Import(k, "np", "numpy")
        k2 == Then(k1, LAMBDA s : Import(s, "Isomap", "scikit-learn"))
        k3 == Then(k2, LAMBDA s : DatasetValues(s, "resnet101_embeddings", "embeddings"))
        k4 == Then(k3, LAMBDA s : Then(Need(s, {"Isomap"}),
                  LAMBDA t : Bind(t, "manifold_embedding", Value("isomap", "", "", 2))))
    IN  Then(k4, LAMBDA s :
             ReduceOutside(s, "isomap", {"manifold_embedding"}, "embeddings", 2))

\* The method the Isomap cell passes with its points.
ManualMethod_Named == "isomap"

ManualMethod == "manual"

DRBody10(k) ==
    ComputeVisualization(k,
        CVArgs("", "", "", ManualMethod, "", "z", "", "resnet101_isomap", 0), "")

DRBody11(k) == GitClone(k, "CompressionVAE")

DRBody12(k) == PipInstallDot(ShellCd(k, "CompressionVAE"))

DRBody13(k) ==
    LET k1 == Import(k, "cvae", "cvae")
        k2 == Then(k1, LAMBDA s : DatasetValues(s, "clip_embeddings", "X"))
        k3 == Then(k2, LAMBDA s : Then(Need(s, {"cvae", "X"}),
                  LAMBDA t : Bind(t, "embedder", Value("cvae", "", t.ns["X"].of, 0))))
        k4 == Then(k3, LAMBDA s : ReduceOutside(s, "cvae", {"embedder"}, "X", 0))
    IN  Then(k4, LAMBDA s : ComputeVisualization(s,
             CVArgs("", "", "", "manual", "", "z", "", "clip_cvae", 0), ""))

DRBody14(k) ==
    LET k1 == Import(k, "np", "numpy")
        k2 == Then(k1, LAMBDA s : Import(s, "Isomap", "scikit-learn"))
        k3 == Then(k2, LAMBDA s : ImportFiftyOne(s, {"fo", "fob"}))
        k4 == Then(k3, LAMBDA s : Bind(s, "IsomapVisualizationConfig",
                  Value("class", "IsomapVisualizationConfig", "", 0)))
    IN  Then(k4, LAMBDA s : Bind(s, "IsomapVisualization",
                  Value("class", "IsomapVisualization", "", 0)))

\* The embeddings_field the custom-Isomap cell gives compute_embeddings(): none.
IsomapEmbeddingsField_Stored == "clip_embeddings"

IsomapEmbeddingsField == ""

DRBody15(k) ==
    LET k1 == LoadZooDataset(k, "dataset", "quickstart", "")
        k2 == Then(k1, LAMBDA s : LoadZooModel(s, "model", "clip-vit-base32-torch"))
        k3 == Then(k2, LAMBDA s :
                  ComputeEmbeddings(s, "model", IsomapEmbeddingsField, "embeddings"))
    IN  Then(k3, LAMBDA s : ComputeVisualization(s,
             CVArgs("", "embeddings", "", "", "IsomapVisualizationConfig", "", "", "isomap", 0),
             "results2"))

DRBody16(k) ==
    LET k1 == ImportFiftyOne(k, {"fo", "fob", "foz"})
        k2 == Then(k1, LAMBDA s : LoadZooDataset(s, "dataset", "quickstart", ""))
    IN  Then(k2, LAMBDA s : ComputeVisualization(s,
             CVArgs("", "", "", "umap", "", "", "ground_truth", "gt_umap", 0), ""))

DRCell1 == dr.pc = 1 /\ dr' = RunCell(dr, 1, DRBody1) /\ UNCHANGED <<lib, cl, iso, au>>
DRCell2 == dr.pc = 2 /\ dr' = RunCell(dr, 2, DRBody2) /\ UNCHANGED <<lib, cl, iso, au>>
DRCell3 == dr.pc = 3 /\ dr' = RunCell(dr, 3, DRBody3) /\ UNCHANGED <<lib, cl, iso, au>>
DRCell4 == dr.pc = 4 /\ dr' = RunCell(dr, 4, DRBody4) /\ UNCHANGED <<lib, cl, iso, au>>
DRCell5 == dr.pc = 5 /\ dr' = RunCell(dr, 5, DRBody5) /\ UNCHANGED <<lib, cl, iso, au>>
DRCell6 == dr.pc = 6 /\ dr' = RunCell(dr, 6, DRBody6) /\ UNCHANGED <<lib, cl, iso, au>>
DRCell7 == dr.pc = 7 /\ dr' = RunCell(dr, 7, DRBody7) /\ UNCHANGED <<lib, cl, iso, au>>
DRCell8 == dr.pc = 8 /\ dr' = RunCell(dr, 8, DRBody8) /\ UNCHANGED <<lib, cl, iso, au>>
DRCell9 == dr.pc = 9 /\ dr' = RunCell(dr, 9, DRBody9) /\ UNCHANGED <<lib, cl, iso, au>>
DRCell10 == dr.pc = 10 /\ dr' = RunCell(dr, 10, DRBody10) /\ UNCHANGED <<lib, cl, iso, au>>
DRCell11 == dr.pc = 11 /\ dr' = RunCell(dr, 11, DRBody11) /\ UNCHANGED <<lib, cl, iso, au>>
DRCell12 == dr.pc = 12 /\ dr' = RunCell(dr, 12, DRBody12) /\ UNCHANGED <<lib, cl, iso, au>>
DRCell13 == dr.pc = 13 /\ dr' = RunCell(dr, 13, DRBody13) /\ UNCHANGED <<lib, cl, iso, au>>
DRCell14 == dr.pc = 14 /\ dr' = RunCell(dr, 14, DRBody14) /\ UNCHANGED <<lib, cl, iso, au>>
DRCell15 == dr.pc = 15 /\ dr' = RunCell(dr, 15, DRBody15) /\ UNCHANGED <<lib, cl, iso, au>>
DRCell16 == dr.pc = 16 /\ dr' = RunCell(dr, 16, DRBody16) /\ UNCHANGED <<lib, cl, iso, au>>

(***************************************************************************)
(* The code cells of docs/tutorials/clustering.ipynb.                      *)
(***************************************************************************)

\* !fiftyone plugins download <url>
PluginsDownload(k, plugin) ==
    IF "fiftyone" \in k.installed THEN [k EXCEPT !.plugins = @ \cup {plugin}] ELSE k

\* dataset.select_fields().keep_fields(): only the selected fields are kept,
\* and none is selected.
KeepNoFields_KeepAll(k) == Need(k, {"dataset"})

KeepNoFields(k) ==
    LET k1 == Need(k, {"dataset"})
        d == k1.ns["dataset"].name
    IN  IF k1.err THEN k1
        ELSE [k1 EXCEPT !.fields[d] = [f \in FieldNames |-> Unbound]]

\* dataset.name = name / dataset.persistent = True
NameAndPersist(k, name) ==
    LET k1 == Need(k, {"dataset"})
        d == k1.ns["dataset"].name
    IN  IF k1.err THEN k1
        ELSE [k1 EXCEPT !.dsname[d] = name, !.persistent = @ \cup {d}]

\* !export VAR=value: set in the shell of that line only.
ShellExport(k, var) == k

CLBody1(k) == PipInstallPkgs(k, {"scikit-learn", "fiftyone"})

CLBody2(k) == PluginsDownload(k, "clustering-plugin")

CLBody3(k) == PipInstallPkgs(k, {"umap-learn", "clip"})

CLBody4(k) ==
    LET k1 == ImportFiftyOne(k, {"fo", "fob", "foz"})
        k2 == Then(k1, LAMBDA s : Import(s, "F", "fiftyone"))
        k3 == Then(k2, LAMBDA s : LoadZooDataset(s, "dataset", "coco-2017", "validation"))
        k4 == Then(k3, KeepNoFields)
        k5 == Then(k4, LAMBDA s : NameAndPersist(s, "clustering-demo"))
    IN  Then(k5, LaunchApp)

CLBody5(k) ==
    LET k1 == ComputeVisualization(k,
                  CVArgs("clip_embeddings", "", "clip-vit-base32-torch", "umap", "", "", "",
                         "clip_vis", 0), "res")
    IN  Then(k1, LAMBDA s : SetValuesCurrentPoints(s, "clip_umap", "res"))

CLBody6(k) == ShellExport(k, "OPENAI_API_KEY")

CLCell1 == cl.pc = 1 /\ cl' = RunCell(cl, 1, CLBody1) /\ UNCHANGED <<lib, dr, iso, au>>
CLCell2 == cl.pc = 2 /\ cl' = RunCell(cl, 2, CLBody2) /\ UNCHANGED <<lib, dr, iso, au>>
CLCell3 == cl.pc = 3 /\ cl' = RunCell(cl, 3, CLBody3) /\ UNCHANGED <<lib, dr, iso, au>>
CLCell4 == cl.pc = 4 /\ cl' = RunCell(cl, 4, CLBody4) /\ UNCHANGED <<lib, dr, iso, au>>
CLCell5 == cl.pc = 5 /\ cl' = RunCell(cl, 5, CLBody5) /\ UNCHANGED <<lib, dr, iso, au>>
CLCell6 == cl.pc = 6 /\ cl' = RunCell(cl, 6, CLBody6) /\ UNCHANGED <<lib, dr, iso, au>>

(***************************************************************************)
(* The augmentation notebook: its two code cells, each after the shell      *)
(* commands the text before it tells the reader to run.                     *)
(***************************************************************************)

\* <x> = <cls>.from_pretrained(name) / <x> = <cls>(weights)
MakeModel(k, x, cls, name) ==
    Then(Need(k, {cls}), LAMBDA s : Bind(s, x, Value("model", name, "", 0)))

\* dataset.apply_model(<m>, field): the model's predictions, as labels.
ApplyModel(k, m, field) ==
    LET k1 == Need(k, {"dataset", m})
        d == k1.ns["dataset"].name
    IN  IF k1.err THEN k1
        ELSE [k1 EXCEPT !.fields[d][field] = Value("labels", field, k1.ns[m].name, 0)]

\* pip install -U fiftyone albumentations / fiftyone plugins download ...
AUBody1(k) ==
    PluginsDownload(PipInstallPkgs(k, {"fiftyone", "albumentations"}),
                    "albumentations-plugin")

\* The samples of the train split of KITTI are cut to max_samples.
AUBody2(k) ==
    LET k1 == ImportFiftyOne(k, {"fo", "foz"})
        k2 == Then(k1, LAMBDA s : LoadZooDataset(s, "dataset", "kitti", "train"))
    IN  Then(k2, LaunchApp)

\* pip install -U transformers ultralytics
AUBody3(k) == PipInstallPkgs(k, {"transformers", "ultralytics"})

AUBody4(k) ==
    LET k1 == Import(k, "AutoModelForDepthEstimation", "transformers")
        k2 == Then(k1, LAMBDA s :
                  MakeModel(s, "depth_model", "AutoModelForDepthEstimation", "Intel/dpt-large"))
        k3 == Then(k2, LAMBDA s : ApplyModel(s, "depth_model", "depth"))
        k4 == Then(k3, LAMBDA s : Import(s, "YOLO", "ultralytics"))
        k5 == Then(k4, LAMBDA s : MakeModel(s, "pose_model", "YOLO", "yolov8x-pose.pt"))
        k6 == Then(k5, LAMBDA s : ApplyModel(s, "pose_model", "keypoints"))
    IN  Then(k6, LaunchApp)

AUStep1 == au.pc = 1 /\ au' = RunCell(au, 1, AUBody1) /\ UNCHANGED <<lib, dr, cl, iso>>
AUStep2 == au.pc = 2 /\ au' = RunCell(au, 2, AUBody2) /\ UNCHANGED <<lib, dr, cl, iso>>
AUStep3 == au.pc = 3 /\ au' = RunCell(au, 3, AUBody3) /\ UNCHANGED <<lib, dr, cl, iso>>
AUStep4 == au.pc = 4 /\ au' = RunCell(au, 4, AUBody4) /\ UNCHANGED <<lib, dr, cl, iso>>

\* The custom classes used on their own: a config is made with the arguments
\* given, then fit() runs on some embeddings (one row per sample).
NoConfig == [base |-> [num_dims |-> 0], n_neighbors |-> 0]

NoIso ==
    [stage |-> "new", given |-> NotGiven, kwargs |-> [num_dims |-> NotGiven],
     config |-> NoConfig, embeddings |-> <<>>, points |-> <<>>]

\* config = IsomapVisualizationConfig([n_neighbors=n,] [num_dims=dims])
IsoConfigure(n, dims) ==
    /\ iso.stage = "new"
    /\ iso' = [iso EXCEPT !.stage = "configured",
                          !.given = n,
                          !.kwargs = [num_dims |-> dims],
                          !.config = IsomapVisualizationConfig(n, [num_dims |-> dims])]
    /\ UNCHANGED <<lib, dr, cl, au>>

\* IsomapVisualization(config).fit(embeddings)
IsoFit(rows) ==
    /\ iso.stage = "configured"
    /\ iso' = [iso EXCEPT !.stage = "fitted",
                          !.embeddings = [i \in 1..rows |-> i],
                          !.points = IsomapVisualizationFit(iso.config, [i \in 1..rows |-> i])]
    /\ UNCHANGED <<lib, dr, cl, au>>

NextIsomap ==
    \/ \E n \in 0..MaxNeighbors : \E dims \in 0..MaxDims : IsoConfigure(n, dims)
    \/ \E rows \in 1..MaxRows : IsoFit(rows)

InitNotebooks ==
    /\ lib \in LibBehaviours
    /\ dr = InitKernel
    /\ cl = InitKernel
    /\ iso = NoIso
    /\ au = InitKernel

NextNotebooks ==
    \/ DRCell1 \/ DRCell2 \/ DRCell3 \/ DRCell4 \/ DRCell5 \/ DRCell6
    \/ DRCell7 \/ DRCell8 \/ DRCell9 \/ DRCell10 \/ DRCell11 \/ DRCell12
    \/ DRCell13 \/ DRCell14 \/ DRCell15 \/ DRCell16
    \/ CLCell1 \/ CLCell2 \/ CLCell3 \/ CLCell4 \/ CLCell5 \/ CLCell6
    \/ AUStep1 \/ AUStep2 \/ AUStep3 \/ AUStep4

\* The cells of dimension_reduction.ipynb alone.
NextDR ==
    \/ DRCell1 \/ DRCell2 \/ DRCell3 \/ DRCell4 \/ DRCell5 \/ DRCell6
    \/ DRCell7 \/ DRCell8 \/ DRCell9 \/ DRCell10 \/ DRCell11 \/ DRCell12
    \/ DRCell13 \/ DRCell14 \/ DRCell15 \/ DRCell16

vars == <<buildVars, nbVars>>

Init == InitBuild /\ InitNotebooks

Next ==
    \/ NextBuild /\ UNCHANGED nbVars
    \/ NextNotebooks /\ UNCHANGED buildVars
    \/ NextIsomap /\ UNCHANGED buildVars

Spec == Init /\ [][Next]_vars

\* The documentation build alone, and the notebooks alone.
SpecBuild == Init /\ [][NextBuild /\ UNCHANGED nbVars]_vars

SpecNotebooks == Init /\ [][NextNotebooks /\ UNCHANGED buildVars]_vars

\* The dimension_reduction notebook together with uses of its custom Isomap
\* classes.
SpecIsomap == Init /\ [][(NextDR \/ NextIsomap) /\ UNCHANGED buildVars]_vars

(***************************************************************************)
(* Properties.                                                             *)
(***************************************************************************)

\* C1: while mkdocs serve --dirty runs, editing one file rebuilds only that
\* file's page and leaves every other built page as it was; while mkdocs
\* serve (no flag) runs, an edit rebuilds the entire site it serves; and a
\* serve started without flags is a clean one.
C1_DirtyRebuildsOnlyEditedFile ==
    /\ [][\A f \in GeneralPages :
            (src_ver'[f] # src_ver[f] /\ serve # "off") =>
                IF "--dirty" \in serve_args
                  THEN /\ rebuilt' = {f}
                       /\ site'[f] = src_ver'[f]
                       /\ \A q \in AllPages \ {f} : site'[q] = site[q]
                  ELSE /\ rebuilt' = GeneralPages
                       /\ \A q \in GeneralPages : site'[q] = src_ver'[q]]_vars
    /\ [](serve # "off" /\ serve_args = {} => serve = "clean")

\* A dirty server has just rebuilt one edited page while another page stays
\* built from before.
C1_Witness ==
    /\ last_cmd = "edit"
    /\ serve = "dirty"
    /\ Cardinality(rebuilt) = 1
    /\ \E q \in GeneralPages \ rebuilt : site[q] # NotBuilt

\* README steps 1-3 done in order: the venv made and activated, the shell in
\* the repo root, and requirements.txt installed into that venv.
StepsDoneInOrder == venv = "active" /\ cwd_root /\ "venv" \in deps

\* C2: after README steps 1-3 in that order, ./build.sh --venv <venv> succeeds
\* and builds the entire doc site, the API docs along with the general docs,
\* every page from its current source; mkdocs serve builds general docs only.
C2_BuildShBuildsEntireSite ==
    /\ (last_cmd = "build.sh" /\ StepsDoneInOrder) =>
           /\ last_ok
           /\ rebuilt = GeneralPages \cup ApiPages
           /\ \A p \in AllPages : site[p] = src_ver[p]
    /\ (last_cmd = "serve" /\ last_ok) =>
           /\ rebuilt \subseteq GeneralPages
           /\ rebuilt \cap ApiPages = {}
           /\ (serve = "clean" => rebuilt = GeneralPages)

\* build.sh has just built the site after the steps were done in order.
C2_Witness ==
    /\ last_cmd = "build.sh"
    /\ last_ok
    /\ StepsDoneInOrder
    /\ \A p \in ApiPages : site[p] # NotBuilt

Kernels == {dr, cl, au}

\* The successful compute_visualization() calls of kernel k that stored under
\* brain key b on dataset d.
StoredCalls(k, d, b) ==
    {i \in DOMAIN k.calls : k.calls[i].ok /\ k.calls[i].ds = d /\ k.calls[i].key = b}

\* C3: after compute_visualization() has run with brain_key=K on a dataset,
\* results are accessible under K, and what load_brain_results(K) returns is
\* the results of the run stored under K: the latest successful run with that
\* key.  In the API recap cell, whose call stores under "pca_resnet101", the
\* results loaded back are those of that call.
C3_LoadReturnsRunStoredUnderKey ==
    /\ \A k \in Kernels : \A d \in Datasets : \A b \in BrainKeys :
           /\ StoredCalls(k, d, b) # {} <=> k.brain[d][b] # NoRun
           /\ k.brain[d][b] # NoRun =>
                  LET got == LoadBrainResults(Bind(Fresh(k), "dataset", Value("dataset", d, "", 0)),
                                              b, "res").ns["res"]
                  IN  /\ got = Value("results", b, d, k.brain[d][b].run)
                      /\ got.n \in StoredCalls(k, d, b)
                      /\ \A i \in StoredCalls(k, d, b) : i <= got.n
                      /\ k.calls[got.n].points_out = k.brain[d][b].points
    /\ \A i \in DOMAIN dr.calls :
           (dr.pc > 5 /\ dr.calls[i].key = "pca_resnet101" /\ dr.calls[i].ok) =>
               dr.ns["pca_resnet_results"] = Value("results", "pca_resnet101", "cifar10-test", i)

\* The recap cell has loaded the results of its PCA run back.
C3_Witness ==
    /\ dr.ns["pca_resnet_results"].kind = "results"
    /\ dr.brain["cifar10-test"]["pca_resnet101"].method = "pca"

\* C8 as stated: the method of every compute_visualization() call is one of
\* the strings pca, tsne, umap, manual; pca, tsne and umap compute the
\* reduction, manual computes none and stores the points given.
C8_MethodIsOneOfFourStrings ==
    \A k \in Kernels : \A i \in DOMAIN k.calls :
        LET c == k.calls[i]
        IN  /\ c.method_var = "" /\ c.method \in MethodStrings
            /\ (c.ok /\ c.method \in ReducingMethods) => c.computed
            /\ (c.ok /\ c.method = "manual") => ~c.computed /\ c.points_out = c.points_in

\* C8 amended: the method is one of the four strings or a VisualizationConfig
\* class (IsomapVisualizationConfig); pca, tsne and umap compute the reduction
\* to num_dims dimensions, manual computes none and what is stored under the
\* brain key is the points given.
C8_MethodIsStringOrConfigClass ==
    \A k \in Kernels :
        /\ \A i \in DOMAIN k.calls :
             LET c == k.calls[i]
             IN  /\ \/ c.method_var = "" /\ c.method \in MethodStrings
                    \/ c.method = "" /\ c.method_var = "IsomapVisualizationConfig"
                 /\ (c.ok /\ c.method \in ReducingMethods) =>
                        c.computed /\ c.points_out = Value("points", c.method, c.emb, DefaultNumDims)
                 /\ (c.ok /\ c.method = "manual") =>
                        ~c.computed /\ c.points_out = c.points_in /\ c.points_in.kind = "points"
        /\ \A d \in Datasets : \A b \in BrainKeys :
             k.brain[d][b].method = "manual" =>
                 /\ ~k.brain[d][b].computed
                 /\ k.brain[d][b].points = k.calls[k.brain[d][b].run].points_in

\* Calls of every kind have been made: a computed one, a manual one storing
\* the Isomap points, and one with the config class.
C8_Witness ==
    /\ dr.brain["cifar10-test"]["resnet101_isomap"].method = "manual"
    /\ dr.brain["cifar10-test"]["resnet101_umap"].method = "umap"
    /\ dr.brain["quickstart"]["isomap"].method = "IsomapVisualizationConfig"

\* C11: when mkdocs serve has failed with errors related to the docs/api and
\* docs/ts_api folders, deleting their symlinks and rerunning the command
\* completes, and reports no error about those folders; the errors it reported
\* were about symlinks then present.
C11_RerunAfterDeletingSymlinks ==
    /\ [][(last_cmd = "rm" /\ last_cmd' = "serve") =>
             (last_ok' /\ serve' # "off" /\ api_errors' = {})]_vars
    /\ []((last_cmd = "serve" /\ api_errors # {}) =>
             (~last_ok /\ serve = "off" /\ api_errors \subseteq symlinks))
    /\ []((last_cmd = "serve" /\ symlinks = {}) => api_errors = {})

\* mkdocs serve runs right after the symlinks were deleted, with the API pages
\* still not generated.
C11_Witness ==
    /\ last_cmd = "serve"
    /\ last_ok
    /\ symlinks = {}
    /\ \A p \in ApiPages : site[p] = NotBuilt

\* The clustering notebook's dataset, its CLIP model and its run.
ClusteringDataset == "coco-2017-validation"

ClipModel == "clip-vit-base32-torch"

\* C13: the clustering notebook's compute_visualization(dataset, model=CLIP,
\* embeddings="clip_embeddings", method="umap", brain_key="clip_vis") computes
\* the CLIP embeddings (the field had none), stores them in clip_embeddings
\* and reduces those same embeddings to 2D points; the set_values() after it
\* stores in clip_umap one 2D vector per sample, each on the sample it was
\* computed from.
C13_ClipEmbeddingsStoredAndPointsPerSample ==
    /\ cl.pc <= 5 =>
           /\ cl.fields[ClusteringDataset]["clip_embeddings"] = Unbound
           /\ cl.fields[ClusteringDataset]["clip_umap"] = Unbound
    /\ cl.pc > 5 =>
           LET r == cl.brain[ClusteringDataset]["clip_vis"]
               e == cl.fields[ClusteringDataset]["clip_embeddings"]
           IN  /\ 5 \notin cl.failed
               /\ e = Value("embeddings", "", ClipModel, 0)
               /\ r.method = "umap" /\ r.computed /\ r.emb = e.of
               /\ r.points = Value("points", "umap", e.of, 2)
               /\ cl.ns["res"] = Value("results", "clip_vis", ClusteringDataset, r.run)
               /\ cl.fields[ClusteringDataset]["clip_umap"] = r.points
               /\ Len(cl.samples[ClusteringDataset]) = NumSamples
               /\ \A s \in 1..NumSamples :
                      cl.source_of[ClusteringDataset]["clip_umap"][s] = s

\* The cell has run: clip_umap holds the 2D points of the CLIP embeddings.
C13_Witness ==
    /\ cl.pc > 5
    /\ cl.fields[ClusteringDataset]["clip_umap"].kind = "points"
    /\ cl.fields[ClusteringDataset]["clip_embeddings"].kind = "embeddings"

\* C14: in the dimension_reduction notebook run top to bottom, every
\* embeddings field a code cell reads (resnet101_embeddings, clip_embeddings,
\* resnet101) has been written on that dataset by an earlier
\* compute_embeddings(..., embeddings_field=...) call.
C14_EmbeddingsFieldsWrittenBeforeRead ==
    \A r \in dr.reads :
        /\ r.field \in {"resnet101_embeddings", "clip_embeddings", "resnet101"}
        /\ r.written

\* The techniques of the PCA, t-SNE and UMAP cells, and the models of the two
\* embeddings each cell reduces.
Techniques == {"pca", "tsne", "umap"}

ResNetModel == "resnet101-imagenet-torch"

\* C15: in the dimension_reduction notebook every compute_visualization()
\* call on a dataset uses a brain key no other call on that dataset uses, and
\* after the PCA, t-SNE and UMAP cells the ResNet-101 results and the CLIP
\* results of each technique are both stored under some brain key.
C15_BrainKeysUnique ==
    /\ \A i, j \in DOMAIN dr.calls :
           (i # j /\ dr.calls[i].ds = dr.calls[j].ds) => dr.calls[i].key # dr.calls[j].key
    /\ dr.pc > 8 =>
           \A m \in Techniques : \A e \in {ResNetModel, ClipModel} :
               \E b \in BrainKeys :
                   /\ dr.brain["cifar10-test"][b].method = m
                   /\ dr.brain["cifar10-test"][b].emb = e

\* C16: when the install cell's pip install . runs, its working directory is
\* the CompressionVAE directory the git clone created, the package is
\* installed, and the later from cvae import cvae finds it.
C16_PipInstallRunsInClone ==
    /\ dr.pc > 12 =>
           /\ dr.pip_cwd = "CompressionVAE"
           /\ "CompressionVAE" \in dr.dirs
           /\ "cvae" \in dr.installed
    /\ dr.pc > 13 => dr.ns["cvae"].kind = "module"

\* C17: after the cell !export OPENAI_API_KEY=sk-... has run, OPENAI_API_KEY
\* is set in the environment of the kernel, the process whose environment the
\* App and its operators run with.
C17_ExportSetsApiKey ==
    cl.pc > 6 => "OPENAI_API_KEY" \in cl.env

\* C18: IsomapVisualizationConfig() has n_neighbors 5 unless another value is
\* given and forwards the other keyword arguments to VisualizationConfig;
\* IsomapVisualization.fit(embeddings) builds an Isomap with n_components=2,
\* whatever num_dims the config has, and n_neighbors from its config, and
\* returns one 2D point per input embedding, in order; a compute_visualization()
\* call given method=IsomapVisualizationConfig runs this fit.
C18_IsomapConfigAndFit ==
    /\ iso.stage # "new" =>
           /\ iso.config.n_neighbors = (IF iso.given = NotGiven THEN 5 ELSE iso.given)
           /\ iso.config.base = VisualizationConfig(iso.kwargs)
           /\ (iso.kwargs.num_dims # NotGiven =>
                   iso.config.base.num_dims = iso.kwargs.num_dims)
    /\ iso.stage = "fitted" =>
           /\ Len(iso.points) = Len(iso.embeddings)
           /\ \A i \in 1..Len(iso.points) :
                  iso.points[i] = [of |-> iso.embeddings[i], dims |-> 2,
                                   n_neighbors |-> iso.config.n_neighbors]
    /\ \A i \in DOMAIN dr.calls :
           (dr.calls[i].method_var = "IsomapVisualizationConfig" /\ dr.calls[i].ok) =>
               /\ dr.calls[i].computed
               /\ dr.calls[i].fit = Isomap(2, 5)
               /\ dr.calls[i].points_out = Value("points", "isomap", dr.calls[i].emb, 2)
               /\ dr.brain[dr.calls[i].ds][dr.calls[i].key].points = dr.calls[i].points_out

\* A config made without n_neighbors and with num_dims=3 has been fitted on
\* several embeddings, and the notebook's call with the config class has run.
C18_Witness ==
    /\ iso.stage = "fitted"
    /\ iso.given = NotGiven
    /\ iso.kwargs.num_dims = 3
    /\ Len(iso.points) > 1
    /\ \E i \in DOMAIN dr.calls :
           dr.calls[i].method_var = "IsomapVisualizationConfig" /\ dr.calls[i].ok

\* C24: in the clustering notebook's setup cell, select_fields().keep_fields()
\* deletes the labels of the loaded COCO validation split, so that no label
\* field remains on any sample while the samples are kept; the dataset is then
\* named clustering-demo and made persistent, and the App is launched on the
\* dataset so named and persistent.  Nothing is in a field until the next
\* cell runs.
C24_SetupCellKeepsNoLabels ==
    /\ cl.pc > 4 =>
           /\ 4 \notin cl.failed
           /\ ClusteringDataset \in cl.loaded
           /\ cl.fields[ClusteringDataset]["ground_truth"] = Unbound
           /\ \A f \in FieldNames : cl.fields[ClusteringDataset][f].kind # "labels"
           /\ cl.samples[ClusteringDataset] = SampleIds
           /\ cl.dsname[ClusteringDataset] = "clustering-demo"
           /\ ClusteringDataset \in cl.persistent
           /\ cl.ns["session"] = Value("session", ClusteringDataset, "clustering-demo", 1)
    /\ cl.pc = 5 => \A f \in FieldNames : cl.fields[ClusteringDataset][f] = Unbound

\* The setup cell has run: the App shows the dataset, which has its samples
\* and no field.
C24_Witness ==
    /\ cl.pc = 5
    /\ cl.ns["session"].kind = "session"
    /\ Len(cl.samples[ClusteringDataset]) > 0
    /\ \A f \in FieldNames : cl.fields[ClusteringDataset][f] = Unbound

\* C25: embeddings passed to compute_visualization() as an array are reduced
\* without being stored on the samples: after the custom-Isomap cell
\* (embeddings = dataset.compute_embeddings(model), then
\* compute_visualization(..., embeddings=embeddings, brain_key="isomap")) the
\* quickstart dataset has the brain run isomap, computed from those
\* embeddings, and no embeddings field.
C25_ArrayEmbeddingsNotStored ==
    /\ dr.pc <= 15 => dr.brain["quickstart"]["isomap"] = NoRun
    /\ dr.pc > 15 =>
           /\ 15 \notin dr.failed
           /\ dr.ns["embeddings"] = Value("embeddings", "", ClipModel, 0)
           /\ dr.brain["quickstart"]["isomap"].method = "IsomapVisualizationConfig"
           /\ dr.brain["quickstart"]["isomap"].emb = dr.ns["embeddings"].of
           /\ \A f \in FieldNames :
                  /\ dr.fields["quickstart"][f].kind # "embeddings"
                  /\ <<"quickstart", f>> \notin dr.written
                  /\ f # "ground_truth" => dr.fields["quickstart"][f] = Unbound

\* The custom-Isomap cell has run and stored its run.
C25_Witness ==
    /\ dr.pc = 16
    /\ dr.brain["quickstart"]["isomap"].computed
    /\ dr.ns["results2"].kind = "results"

\* The names the notebooks' cells use and bind.
ListedNames ==
    {"fo", "fob", "foz", "np", "dataset", "clip", "resnet101", "z", "embeddings",
     "IsomapVisualizationConfig", "session"}

\* C26: executing the code cells of each notebook once, top to bottom, every
\* Python name a statement uses has been imported or assigned by that cell or
\* an earlier cell of the same notebook, so that no use meets an unbound
\* name; when dimension_reduction.ipynb has run, each of fo, fob, foz, np,
\* dataset, clip, resnet101, z, embeddings, IsomapVisualizationConfig and
\* session is bound.
C26_NamesDefinedBeforeUse ==
    /\ \A u \in dr.uses \cup cl.uses \cup au.uses : u.bound
    /\ \A x \in ListedNames :
           /\ dr.pc > 16 => dr.ns[x] # Unbound
           /\ \A u \in dr.uses : u.name = x => dr.ns[x] # Unbound

\* The three notebooks have run, and cells have used names bound by earlier
\* cells: z and IsomapVisualizationConfig, res, dataset.
C26_Witness ==
    /\ dr.pc > 16 /\ cl.pc > 6 /\ au.pc > 4
    /\ [cell |-> 10, name |-> "z", bound |-> TRUE] \in dr.uses
    /\ [cell |-> 15, name |-> "IsomapVisualizationConfig", bound |-> TRUE] \in dr.uses
    /\ [cell |-> 5, name |-> "dataset", bound |-> TRUE] \in cl.uses
    /\ [cell |-> 4, name |-> "dataset", bound |-> TRUE] \in au.uses
    /\ au.fields["kitti-train"]["keypoints"].kind = "labels"

====
